---- MODULE Spec2Model ----
(***************************************************************************)
(* LexiDeck: the concurrent, rate-limited retrieval orchestrator.          *)
(*                                                                         *)
(*   create_deck               (src/app/main.py)     the collector         *)
(*   rate_limited_create_notes (src/note_creator.py) one task per word     *)
(*   Scraper                   (src/scraper.py)      session, probe,       *)
(*                                                   request counter       *)
(*                                                                         *)
(* Everything runs on one asyncio event loop: an action is the code one    *)
(* coroutine runs between two suspension points.  A word is opaque and     *)
(* the words of the input list are unique, so a word is named by its       *)
(* index in the list and task t is the task spawned for word t.            *)
(***************************************************************************)
EXTENDS Integers, Sequences, FiniteSets

\* ------------------------------------------------------------------ bounds
MaxWords == 2        \* longest input list
MaxConcurrency == 2  \* largest --concurrency-limit tried
MaxNoteLimit == 2    \* largest --note-limit tried (0: no cap)
MaxNotes == 2        \* most notes one word yields
MaxStillLimited == 1 \* most probes that answer "still rate-limited"
MaxSourceLen == 3    \* longest list a source reads, duplicates included
MaxCalls == 2        \* most direct calls of one Scraper method
MaxDeckNotes == 2    \* most notes of one deck of an Anki package
MaxTextLen == 4      \* longest text given to _standardize

VARIABLES
    words,                     \* len(words_to_translate)
    source_words,              \* the words the source read, duplicates included
    anki_source,               \* an AnkiPackageSource: the package's decks, deck_name, field_name
    source_result,             \* what its get_words_to_translate raised or returned
    text,                      \* a text given to Scraper._standardize
    standardized,              \* what _standardize returned, call after call
    dictionary,                \* a Dictionary: whether it has a retriever, and its translations
    translate_calls,           \* the calls of Dictionary.translate: position, word, result
    task_word,                 \* task_word[t]: the word task t was spawned for (0: none)
    package,                   \* the output package: whether written, and its notes per task
    concurrency_limit,         \* create_deck argument
    note_limit,                \* create_deck argument
    main_pc,                   \* where create_deck is
    main_exc,                  \* the exception create_deck is raising ("none")
    task_pc,                   \* task_pc[t]: where task t is suspended
    task_result,               \* task_result[t]: len of the list task t returned
    task_exc,                  \* task_exc[t]: the exception task t ended with
    cancel_requested,          \* tasks on which task.cancel() was called, not yet unwound
    remaining_tasks,           \* the finally block's remaining_tasks
    completed,                 \* the order in which tasks finished (as_completed)
    words_processed,           \* create_deck local
    notes_to_create,           \* create_deck local
    all_new_notes,             \* create_deck local: each note as the task it came from
    sem_value,                 \* NoteCreator.semaphore._value
    sem_waiters,               \* NoteCreator.semaphore._waiters (FIFO)
    rate_limit_event,          \* NoteCreator.rate_limit_event.is_set()
    rate_limit_handling_event, \* NoteCreator.rate_limit_handling_event.is_set()
    session,                   \* Scraper.session: "none", "open", "closed"
    sessions_created,          \* aiohttp.ClientSession objects constructed so far
    requests_made,             \* Scraper.requests_made
    close_calls,               \* number of calls of close_session
    still_limited,             \* probes answered "still rate-limited" so far
    last_probe,                \* the last answered rate_limited() call: status and result
    handler,                   \* the task that set rate_limit_handling_event (0: none)
    throttled_under,           \* throttled_under[t]: handler when t, not done yet, was throttled
    held_at_cap,               \* slots held when the note limit stopped the loop
    called_after_close         \* a retrieval or probe call was issued after close_session

vars == <<words, source_words, anki_source, source_result, text, standardized, dictionary,
                   translate_calls, task_word, package, concurrency_limit, note_limit,
          main_pc, main_exc, task_pc,
          task_result, task_exc, cancel_requested, remaining_tasks, completed,
          words_processed, notes_to_create, all_new_notes, sem_value,
          sem_waiters, rate_limit_event, rate_limit_handling_event, session,
          requests_made, close_calls, still_limited, last_probe, handler, throttled_under,
          held_at_cap, called_after_close, sessions_created>>

\* The longest list of any specification of this module: the scenario
\* specification runs one word more than MaxWords, every slot taken and one
\* task queueing behind.
ScenarioWords == MaxWords + 1
AllTasks == 1..ScenarioWords
tasks == IF main_pc = "entry" THEN {} ELSE 1..words

\* A task holds a slot from the end of semaphore.__aenter__ to __aexit__.
HoldingStates == {"create_notes", "sleeping", "probing", "waiting", "woken", "retrying"}
DoneStates == {"returned", "raised", "cancelled"}

Holders == {t \in tasks : task_pc[t] \in HoldingStates}
Done(t) == task_pc[t] \in DoneStates

\* ------------------------------------------------------------------ Source
\* Faulty variant of Deduplicate (fault injection): the list is returned as it was read.
Deduplicate_Nothing(ws) == ws

\* Faulty variant of Deduplicate (fault injection): every word after the first is taken
\* for a repetition.
Deduplicate_FirstWordOnly(ws) == IF ws = <<>> THEN <<>> ELSE <<Head(ws)>>

\* Source._deduplicate: a word is appended to unique_words the first time
\* it is met.
RECURSIVE DeduplicateFrom(_, _, _)
DeduplicateFrom(ws, seen, unique_words) ==
    IF ws = <<>>
    THEN unique_words
    ELSE LET word == Head(ws) IN
         IF word \notin seen
         THEN DeduplicateFrom(Tail(ws), seen \cup {word}, Append(unique_words, word))
         ELSE DeduplicateFrom(Tail(ws), seen, unique_words)

\* Faulty variant of Deduplicate (fault injection): the last occurrence of a word is kept
\* instead of the first.
Reversed(ws) == [i \in 1..Len(ws) |-> ws[Len(ws) + 1 - i]]
Deduplicate_KeepsLast(ws) == Reversed(DeduplicateFrom(Reversed(ws), {}, <<>>))

Deduplicate(ws) == DeduplicateFrom(ws, {}, <<>>)

\* get_words_to_translate: the list create_deck is given.
words_to_translate == Deduplicate(source_words)

\* The lists a source may read: words are 1..MaxWords.
SourceLists == UNION {[1..n -> 1..MaxWords] : n \in 0..MaxSourceLen}

\* A list of n different words.
DistinctWords(n) == [i \in 1..n |-> i]

\* -------------------------------------------------------------- Dictionary
\* The calls of translate that are followed: one more than MaxCalls, so that
\* a call can come after two calls that overlapped.
TranslateCalls == 1..(MaxCalls + 1)

\* The lists a retriever returns: a list is known by the number of its
\* translations.
Translations == 0..MaxNotes
NoEntry == 0 - 1

\* Dictionary.__init__: self.translations = {}
Dictionary(retriever) ==
    [retriever |-> retriever, translations |-> [w \in 1..MaxWords |-> NoEntry]]

NotCalled ==
    [pc |-> "not called", word |-> 0, result |-> NoEntry, retrieved |-> FALSE, after |-> {}]

\* The calls that have returned a list.
ReturnedCalls == {c \in TranslateCalls : translate_calls[c].pc = "returned"}

\* word in self.translations
InDictionary(w) == dictionary.translations[w] # NoEntry

\* ------------------------------------------------------------ _standardize
\* Texts are lists of characters: a lower-case and an upper-case letter, a
\* blank, a character of the class [.,;:!?-] and a punctuation character
\* outside it.
Characters == {"a", "A", " ", "-", "("}
Removed == {"-"}
Whitespace == {" "}
Texts == UNION {[1..n -> Characters] : n \in 0..MaxTextLen}

\* re.sub(r"[.,;:!?-]", "", text)
RemovePunctuation(txt) == SelectSeq(txt, LAMBDA c : c \notin Removed)

\* str.strip(): the blanks at both ends go, those inside stay.
RECURSIVE LStrip(_)
LStrip(txt) ==
    IF txt # <<>> /\ Head(txt) \in Whitespace THEN LStrip(Tail(txt)) ELSE txt
RECURSIVE RStrip(_)
RStrip(txt) ==
    IF txt # <<>> /\ txt[Len(txt)] \in Whitespace
    THEN RStrip(SubSeq(txt, 1, Len(txt) - 1))
    ELSE txt
Strip(txt) == RStrip(LStrip(txt))

\* str.lower()
LowerChar(c) == IF c = "A" THEN "a" ELSE c
Lower(txt) == [i \in 1..Len(txt) |-> LowerChar(txt[i])]

\* Faulty variant of Standardize (fault injection): the text is stripped before the
\* punctuation is removed.
Standardize_StripsFirst(txt) == Lower(RemovePunctuation(Strip(txt)))

\* Scraper._standardize
Standardize(txt) == Lower(Strip(RemovePunctuation(txt)))

\* -------------------------------------------------------- AnkiPackageSource
\* The decks load_decks_from_package may return: every deck has a name, the
\* field names of its notes' model, and per note the content of the fields.
DeckNames == {"Spanish", "Empty deck"}
FieldNames == {"Word", "Meaning"}
Models == {<<"Word">>, <<"Meaning", "Word">>}
NoName == "None"

\* The fields of a note of the given model that holds the word w.
NoteFields(model, w) == [k \in 1..Len(model) |-> IF model[k] = "Word" THEN w ELSE 0]

Decks ==
    {[name |-> name, model |-> model,
      notes |-> [n \in 1..Len(ws) |-> NoteFields(model, ws[n])]] :
        name \in DeckNames, model \in Models,
        ws \in UNION {[1..n -> 1..MaxWords] : n \in 0..MaxDeckNotes}}

Packages == UNION {[1..n -> Decks] : n \in 0..Cardinality(DeckNames)}

AnkiSources ==
    [decks : Packages, deck_name : DeckNames \cup {NoName}, field_name : FieldNames]

NoAnkiSource == [decks |-> <<>>, deck_name |-> NoName, field_name |-> "Word"]
NotRead == [raised |-> "not called", message |-> "", words |-> <<>>]

ValueError(message) == [raised |-> "ValueError", message |-> message, words |-> <<>>]
Returns(ws) == [raised |-> "none", message |-> "", words |-> ws]

\* Faulty variant of MatchingDecks (fault injection): a source without a deck name
\* matches no deck.
MatchingDecks_ByNameOnly(decks, deck_name) ==
    {i \in 1..Len(decks) : decks[i].name = deck_name}

\* d for d in decks if not self.deck_name or d.name == self.deck_name
MatchingDecks(decks, deck_name) ==
    {i \in 1..Len(decks) : deck_name = NoName \/ decks[i].name = deck_name}

\* The position of x in the list xs (list.index).
IndexOf(xs, x) == CHOOSE k \in 1..Len(xs) : xs[k] = x /\ \A j \in 1..(k - 1) : xs[j] # x

\* AnkiPackageSource.get_words_to_translate
AnkiGetWordsToTranslate(src) ==
    LET matching == MatchingDecks(src.decks, src.deck_name) IN
    IF matching = {}
    THEN ValueError("deck not found in package")
    ELSE LET deck == src.decks[CHOOSE i \in matching : \A j \in matching : i <= j] IN
         IF Len(deck.notes) = 0
         THEN ValueError("deck has no notes")
         ELSE LET model_field_names == deck.model IN
              IF \A k \in 1..Len(model_field_names) : model_field_names[k] # src.field_name
              THEN ValueError("field not found in model")
              ELSE LET field_index == IndexOf(model_field_names, src.field_name) IN
                   Returns(Deduplicate([n \in 1..Len(deck.notes) |->
                                           deck.notes[n][field_index]]))

\* ------------------------------------------------------------ output deck
\* No file at output_anki_package_path.
NoPackage == [written |-> FALSE, notes |-> [t \in AllTasks |-> 0]]

\* random.shuffle(notes), deck.add_note for each, write_to_file: the deck
\* holds every note of the list once, in an arbitrary order, so a written
\* package is kept as the number of notes it holds of each task.
WritePackageOf(notes) ==
    [written |-> TRUE,
     notes |-> [t \in AllTasks |-> Len(SelectSeq(notes, LAMBDA w : w = t))]]

\* ------------------------------------------------------------ probe
\* The statuses the remote side answers a probe with.
TOO_MANY_REQUESTS == 429
OK == 200
Statuses == {OK, TOO_MANY_REQUESTS, 503}

\* Faulty variant of RateLimited (fault injection): every error status counts as throttling.
RateLimited_AnyError(status) == status >= 400

\* rate_limited: return response.status == HTTPStatus.TOO_MANY_REQUESTS
RateLimited(status) == status = TOO_MANY_REQUESTS

NoProbe == [status |-> 0, result |-> FALSE]
Answered(status) == [status |-> status, result |-> RateLimited(status)]

\* NoteCreator.__init__: the event starts set, the handling flag clear.
ConstructedFlags ==
    /\ rate_limit_event = TRUE
    /\ rate_limit_handling_event = FALSE

\* The state at the call of create_deck, whatever its arguments and the two
\* flags: a fresh Scraper, no task yet.
ConstructedRest ==
    /\ source_result = NotRead
    /\ standardized = <<>>
    /\ translate_calls = [c \in TranslateCalls |-> NotCalled]
    /\ main_pc = "entry"
    /\ main_exc = "none"
    /\ task_pc = [t \in AllTasks |-> "none"]
    /\ task_word = [t \in AllTasks |-> 0]
    /\ package = NoPackage
    /\ task_result = [t \in AllTasks |-> 0]
    /\ task_exc = [t \in AllTasks |-> "none"]
    /\ cancel_requested = {}
    /\ remaining_tasks = {}
    /\ completed = <<>>
    /\ words_processed = 0
    /\ notes_to_create = 0
    /\ all_new_notes = <<>>
    /\ sem_value = concurrency_limit
    /\ sem_waiters = <<>>
    /\ session = "none"
    /\ sessions_created = 0
    /\ requests_made = 0
    /\ close_calls = 0
    /\ still_limited = 0
    /\ last_probe = NoProbe
    /\ handler = 0
    /\ throttled_under = [t \in AllTasks |-> 0]
    /\ held_at_cap = 0
    /\ called_after_close = FALSE

\* The state at the call of create_deck, whatever its arguments: a fresh
\* NoteCreator and Scraper, no task yet.
Constructed == ConstructedFlags /\ ConstructedRest

Init ==
    /\ words \in 0..MaxWords
    /\ concurrency_limit \in 1..MaxConcurrency
    /\ note_limit \in 0..MaxNoteLimit
    /\ source_words = DistinctWords(words)
    /\ anki_source = NoAnkiSource
    /\ text = <<>>
    /\ dictionary = Dictionary(TRUE)
    /\ Constructed

\* ----------------------------------------------------------------- Scraper
\* start_session: opens a session unless one is open.
StartSession(s) == IF s = "open" THEN s ELSE "open"

\* Faulty variant of SessionsAfterStart (fault injection): start_session
\* replaces the session even when one is open.
SessionsAfterStart_Always(s, n) == n + 1

\* start_session constructs a ClientSession exactly when it opens one.
SessionsAfterStart(s, n) == IF StartSession(s) = s THEN n ELSE n + 1

\* close_session: closes the session if there is one.
CloseSession(s) == IF s = "none" THEN s ELSE "closed"

\* _get_soup and rate_limited open the session lazily before the request.
IssueCall ==
    /\ session' = StartSession(session)
    /\ sessions_created' = SessionsAfterStart(session, sessions_created)
    /\ called_after_close' = (called_after_close \/ close_calls > 0)

NoCall == UNCHANGED <<session, called_after_close, sessions_created>>

\* --------------------------------------------------------------- Semaphore
\* Faulty variant of IsLive (fault injection): a task on which cancel() was called goes on
\* as if it had not been cancelled.
IsLive_Always(t) == TRUE

\* A task on which cancel() was called takes no step of its own but the
\* unwinding; a cancelled waiter is skipped by release().
IsLive(t) == t \notin cancel_requested

\* Faulty variant of LiveWaiters (fault injection): a release wakes the first
\* waiter even when it was cancelled.
LiveWaiters_All == sem_waiters

\* Faulty variant of LiveWaiters (fault injection): a release wakes the waiter
\* that queued last.
LiveWaiters_NewestFirst ==
    LET live == SelectSeq(sem_waiters, IsLive)
    IN  [i \in 1..Len(live) |-> live[Len(live) + 1 - i]]

LiveWaiters == SelectSeq(sem_waiters, IsLive)

\* Faulty variant of SemLocked (fault injection): the semaphore never refuses a slot.
SemLocked_Never == FALSE

\* Semaphore.locked(): no free slot, or somebody is already queueing.
SemLocked == sem_value = 0 \/ LiveWaiters # <<>>

\* The statements of one task from a resumption to its end: the task leaves
\* the semaphore block (__aexit__ releases the slot, which wakes the first
\* waiter that was not cancelled; the woken task starts its retrieval), and
\* becomes done.  how is "returned", "raised" or "cancelled".
Finish(t, how, n, e) ==
    /\ task_result' = [task_result EXCEPT ![t] = n]
    /\ task_exc' = [task_exc EXCEPT ![t] = e]
    /\ completed' = IF how = "cancelled" THEN completed ELSE Append(completed, t)
    /\ cancel_requested' = cancel_requested \ {t}
    /\ throttled_under' = [throttled_under EXCEPT ![t] = 0]
    /\ IF LiveWaiters # <<>>
       THEN LET next == Head(LiveWaiters) IN
            /\ task_pc' = [task_pc EXCEPT ![t] = how, ![next] = "create_notes"]
            /\ sem_waiters' = SelectSeq(sem_waiters, LAMBDA u : u # next)
            /\ sem_value' = sem_value
            /\ IssueCall
       ELSE /\ task_pc' = [task_pc EXCEPT ![t] = how]
            /\ sem_value' = sem_value + 1
            /\ UNCHANGED sem_waiters
            /\ NoCall

MainVarsButCloseCalls ==
    <<words, source_words, anki_source, source_result, text, standardized, dictionary,
                   translate_calls, task_word, package, concurrency_limit, note_limit,
      main_pc, main_exc,
      remaining_tasks, words_processed, notes_to_create, all_new_notes, held_at_cap>>
MainVars == <<MainVarsButCloseCalls, close_calls>>
FlagVars == <<rate_limit_event, rate_limit_handling_event, handler, throttled_under>>
EventVars == <<rate_limit_event, rate_limit_handling_event, handler>>
SemVars == <<sem_value, sem_waiters>>
EndVars == <<task_result, task_exc, completed, cancel_requested>>

\* The event loop runs the first step of every spawned task before it polls
\* for any response.
AllStarted == \A t \in tasks : task_pc[t] # "created"
Runs(t, where) ==
    /\ t \in tasks
    /\ task_pc[t] = where
    /\ IsLive(t)
    /\ AllStarted

\* ------------------------------------------- rate_limited_create_notes
\* First step of a task: async with self.semaphore, then the first
\* create_notes call (suspends on the request) or the semaphore queue.
Start(t) ==
    /\ t \in tasks
    /\ task_pc[t] = "created"
    /\ \A u \in tasks : u < t => task_pc[u] # "created"
    /\ IF SemLocked
       THEN /\ sem_waiters' = Append(sem_waiters, t)
            /\ task_pc' = [task_pc EXCEPT ![t] = "acquiring"]
            /\ UNCHANGED sem_value
            /\ NoCall
       ELSE /\ sem_value' = sem_value - 1
            /\ task_pc' = [task_pc EXCEPT ![t] = "create_notes"]
            /\ UNCHANGED sem_waiters
            /\ IssueCall
    /\ UNCHANGED <<MainVars, FlagVars, EndVars, requests_made, still_limited, last_probe>>

\* The first create_notes returns n notes.
TranslateReturns(t, n) ==
    /\ Runs(t, "create_notes")
    /\ Finish(t, "returned", n, "none")
    /\ requests_made' = requests_made + 1
    /\ UNCHANGED <<MainVars, EventVars, still_limited, last_probe>>

TranslateSucceeds(t) == \E n \in 0..MaxNotes : TranslateReturns(t, n)

\* Faulty variant of IsFirstHandler (fault injection): every throttled task takes the handler branch.
IsFirstHandler_Always == TRUE

\* Faulty variant of IsFirstHandler (fault injection): a throttled task always
\* takes the else branch, so with rate_limit_event set it retries at once.
IsFirstHandler_Never == FALSE

\* if not self.rate_limit_handling_event.is_set()
IsFirstHandler == ~rate_limit_handling_event

\* Faulty variant of BecomeHandler (fault injection): the handling flag is not set.
BecomeHandler_FlagNotSet(t) ==
    /\ UNCHANGED rate_limit_handling_event
    /\ rate_limit_event' = FALSE
    /\ handler' = t
    /\ task_pc' = [task_pc EXCEPT ![t] = "sleeping"]
    /\ NoCall

\* Faulty variant of BecomeHandler (fault injection): the handler probes at once, without
\* sleeping first.
BecomeHandler_ProbesFirst(t) ==
    /\ rate_limit_handling_event' = TRUE
    /\ rate_limit_event' = FALSE
    /\ handler' = t
    /\ task_pc' = [task_pc EXCEPT ![t] = "probing"]
    /\ IssueCall

\* The if branch up to its first suspension: set the handling flag, clear
\* rate_limit_event, sleep.
BecomeHandler(t) ==
    /\ rate_limit_handling_event' = TRUE
    /\ rate_limit_event' = FALSE
    /\ handler' = t
    /\ task_pc' = [task_pc EXCEPT ![t] = "sleeping"]
    /\ NoCall

\* The else branch: await self.rate_limit_event.wait(), which returns at once
\* when the event is set; the task then retries.
WaitForHandler(t) ==
    /\ UNCHANGED <<rate_limit_handling_event, rate_limit_event, handler>>
    /\ IF rate_limit_event
       THEN /\ task_pc' = [task_pc EXCEPT ![t] = "retrying"]
            /\ IssueCall
       ELSE /\ task_pc' = [task_pc EXCEPT ![t] = "waiting"]
            /\ NoCall

\* The first create_notes raises RateLimitException: the task becomes the
\* handler or waits for the handler.
TranslateRateLimited(t) ==
    /\ Runs(t, "create_notes")
    /\ requests_made' = requests_made + 1
    /\ throttled_under' = [throttled_under EXCEPT ![t] = handler]
    /\ IF IsFirstHandler THEN BecomeHandler(t) ELSE WaitForHandler(t)
    /\ UNCHANGED <<MainVars, SemVars, EndVars, still_limited, last_probe>>

\* The first create_notes raises another exception, before the response
\* (counted = 0) or while reading it (counted = 1): except Exception logs it
\* and the task returns None.
TranslateFails(t) ==
    /\ Runs(t, "create_notes")
    /\ Finish(t, "returned", 0, "none")
    /\ \E counted \in 0..1 : requests_made' = requests_made + counted
    /\ UNCHANGED <<MainVars, EventVars, still_limited, last_probe>>

\* asyncio.sleep(reset_time) is over: the handler calls scraper.rate_limited().
SleepEnds(t) ==
    /\ Runs(t, "sleeping")
    /\ task_pc' = [task_pc EXCEPT ![t] = "probing"]
    /\ IssueCall
    /\ UNCHANGED <<MainVars, FlagVars, SemVars, EndVars, requests_made, still_limited, last_probe>>

\* The probe answers 429: sleep again.
ProbeStillLimited(t) ==
    /\ Runs(t, "probing")
    /\ still_limited < MaxStillLimited
    /\ still_limited' = still_limited + 1
    /\ RateLimited(TOO_MANY_REQUESTS)
    /\ last_probe' = Answered(TOO_MANY_REQUESTS)
    /\ requests_made' = requests_made + 1
    /\ task_pc' = [task_pc EXCEPT ![t] = "sleeping"]
    /\ NoCall
    /\ UNCHANGED <<MainVars, FlagVars, SemVars, EndVars>>

\* Faulty variant of ProbeNotLimited (fault injection): the handler clears the handling flag
\* and retries but does not set rate_limit_event, so no follower is released.
ProbeNotLimited_NoRelease(t) ==
    /\ Runs(t, "probing")
    /\ requests_made' = requests_made + 1
    /\ rate_limit_handling_event' = FALSE
    /\ handler' = 0
    /\ task_pc' = [task_pc EXCEPT ![t] = "retrying"]
    /\ IssueCall
    /\ ~RateLimited(OK)
    /\ last_probe' = Answered(OK)
    /\ UNCHANGED <<MainVars, SemVars, EndVars, rate_limit_event, throttled_under,
                   still_limited>>

\* Faulty variant of ProbeNotLimited (fault injection): the handler sets rate_limit_event
\* but leaves the handling flag set.
ProbeNotLimited_FlagKept(t) ==
    /\ Runs(t, "probing")
    /\ requests_made' = requests_made + 1
    /\ rate_limit_event' = TRUE
    /\ task_pc' = [u \in AllTasks |->
                     IF u = t THEN "retrying"
                     ELSE IF task_pc[u] = "waiting" THEN "woken"
                     ELSE task_pc[u]]
    /\ IssueCall
    /\ ~RateLimited(OK)
    /\ last_probe' = Answered(OK)
    /\ UNCHANGED <<MainVars, SemVars, EndVars, throttled_under, still_limited,
                   rate_limit_handling_event, handler>>

\* The probe answers another status: the handler sets rate_limit_event (every
\* waiter's wait() is resolved), clears the handling flag and retries.
ProbeNotLimited(t) ==
    /\ Runs(t, "probing")
    /\ requests_made' = requests_made + 1
    /\ rate_limit_event' = TRUE
    /\ rate_limit_handling_event' = FALSE
    /\ handler' = 0
    /\ task_pc' = [u \in AllTasks |->
                     IF u = t THEN "retrying"
                     ELSE IF task_pc[u] = "waiting" THEN "woken"
                     ELSE task_pc[u]]
    /\ IssueCall
    /\ ~RateLimited(OK)
    /\ last_probe' = Answered(OK)
    /\ UNCHANGED <<MainVars, SemVars, EndVars, throttled_under, still_limited>>

\* Faulty variant of ProbeRaises (fault injection): except Exception catches the exception
\* of the probe, and the task returns None.
ProbeRaises_Swallowed(t) ==
    /\ Runs(t, "probing")
    /\ Finish(t, "returned", 0, "none")
    /\ UNCHANGED <<MainVars, EventVars, requests_made, still_limited, last_probe>>

\* The probe raises: nothing in the except RateLimitException block catches
\* it, the task ends with the exception and both flags stay as they are.
ProbeRaises(t) ==
    /\ Runs(t, "probing")
    /\ Finish(t, "raised", 0, "ProbeError")
    /\ UNCHANGED <<MainVars, EventVars, requests_made, still_limited, last_probe>>

\* A waiter whose wait() was resolved resumes and retries.
FollowerResumes(t) ==
    /\ Runs(t, "woken")
    /\ task_pc' = [task_pc EXCEPT ![t] = "retrying"]
    /\ IssueCall
    /\ UNCHANGED <<MainVars, FlagVars, SemVars, EndVars, requests_made, still_limited, last_probe>>

\* The second create_notes returns n notes.
RetryReturns(t, n) ==
    /\ Runs(t, "retrying")
    /\ Finish(t, "returned", n, "none")
    /\ requests_made' = requests_made + 1
    /\ UNCHANGED <<MainVars, EventVars, still_limited, last_probe>>

RetrySucceeds(t) == \E n \in 0..MaxNotes : RetryReturns(t, n)

\* Faulty variant of RetryRateLimited (fault injection): a throttled retry
\* starts a second backoff instead of ending the task.
RetryRateLimited_BackoffAgain(t) ==
    /\ Runs(t, "retrying")
    /\ requests_made' = requests_made + 1
    /\ rate_limit_handling_event' = TRUE
    /\ rate_limit_event' = FALSE
    /\ handler' = t
    /\ task_pc' = [task_pc EXCEPT ![t] = "sleeping"]
    /\ NoCall
    /\ UNCHANGED <<MainVars, SemVars, EndVars, throttled_under, still_limited, last_probe>>

\* The second create_notes raises RateLimitException inside the except
\* RateLimitException block: no clause of the same try catches it.
RetryRateLimited(t) ==
    /\ Runs(t, "retrying")
    /\ Finish(t, "raised", 0, "RateLimitException")
    /\ requests_made' = requests_made + 1
    /\ UNCHANGED <<MainVars, EventVars, still_limited, last_probe>>

\* The second create_notes raises another exception: not caught either.
RetryFails(t) ==
    /\ Runs(t, "retrying")
    /\ Finish(t, "raised", 0, "Exception")
    /\ \E counted \in 0..1 : requests_made' = requests_made + counted
    /\ UNCHANGED <<MainVars, EventVars, still_limited, last_probe>>

\* Faulty variant of Unwind (fault injection): except Exception catches the CancelledError of
\* a task inside the semaphore block, which logs it and returns None.
Unwind_Swallowed(t) ==
    /\ t \in tasks
    /\ t \in cancel_requested
    /\ \A u \in cancel_requested : t <= u
    /\ IF task_pc[t] \in HoldingStates
       THEN Finish(t, "returned", 0, "none")
       ELSE /\ task_pc' = [task_pc EXCEPT ![t] = "cancelled"]
            /\ task_exc' = [task_exc EXCEPT ![t] = "CancelledError"]
            /\ sem_waiters' = SelectSeq(sem_waiters, LAMBDA u : u # t)
            /\ cancel_requested' = cancel_requested \ {t}
            /\ UNCHANGED <<sem_value, task_result, completed, throttled_under>>
            /\ NoCall
    /\ UNCHANGED <<MainVars, EventVars, requests_made, still_limited, last_probe>>

\* A cancelled task resumes with CancelledError at the point where it is
\* suspended; except Exception does not catch it; a task inside the
\* semaphore block releases its slot, a queued one leaves the queue.  The
\* loop resumes the cancelled tasks in the order task.cancel() was called.
Unwind(t) ==
    /\ t \in tasks
    /\ t \in cancel_requested
    /\ \A u \in cancel_requested : t <= u
    /\ IF task_pc[t] \in HoldingStates
       THEN Finish(t, "cancelled", 0, "CancelledError")
       ELSE /\ task_pc' = [task_pc EXCEPT ![t] = "cancelled"]
            /\ task_exc' = [task_exc EXCEPT ![t] = "CancelledError"]
            /\ sem_waiters' = SelectSeq(sem_waiters, LAMBDA u : u # t)
            /\ cancel_requested' = cancel_requested \ {t}
            /\ UNCHANGED <<sem_value, task_result, completed, throttled_under>>
            /\ NoCall
    /\ UNCHANGED <<MainVars, EventVars, requests_made, still_limited, last_probe>>

\* ------------------------------------------------------------- create_deck
TaskVars == <<task_pc, task_result, task_exc, completed, sem_value, sem_waiters,
              rate_limit_event, rate_limit_handling_event, session,
              requests_made, still_limited, last_probe, handler, throttled_under,
              called_after_close, sessions_created>>

\* if not words_to_translate: return
EntryNoWords ==
    /\ main_pc = "entry"
    /\ words = 0
    /\ main_pc' = "returned"
    /\ UNCHANGED <<words, source_words, anki_source, source_result, text, standardized, dictionary,
                   translate_calls, task_word, package, concurrency_limit,
                   note_limit, main_exc, remaining_tasks,
                   words_processed, notes_to_create, all_new_notes, close_calls,
                   held_at_cap, cancel_requested, TaskVars>>

\* One asyncio.create_task per word, in list order; create_deck then suspends
\* on the first completion.
EntrySpawn ==
    /\ main_pc = "entry"
    /\ words > 0
    /\ main_pc' = "drain"
    /\ task_pc' = [t \in AllTasks |-> IF t <= words THEN "created" ELSE "none"]
    /\ task_word' = [t \in AllTasks |->
                       IF t <= words THEN words_to_translate[t] ELSE 0]
    /\ UNCHANGED <<words, source_words, anki_source, source_result, text, standardized, dictionary,
                   translate_calls, package, concurrency_limit,
                   note_limit, main_exc, remaining_tasks,
                   words_processed, notes_to_create, all_new_notes, close_calls,
                   held_at_cap, cancel_requested, task_result, task_exc,
                   completed, sem_value, sem_waiters, rate_limit_event,
                   rate_limit_handling_event, session, requests_made,
                   still_limited, last_probe, handler, throttled_under, called_after_close, sessions_created>>

\* Faulty variant of NoteLimitReached (fault injection): > instead of >=.
NoteLimitReached_Strict(total) == note_limit # 0 /\ total > note_limit

\* if note_limit and notes_to_create >= note_limit
NoteLimitReached(total) == note_limit # 0 /\ total >= note_limit

\* remaining_tasks = [task for task in tasks if not task.done()]
RemainingTasks == {t \in tasks : ~Done(t)}

\* The finally block up to its first suspension: cancel every task that is
\* not done, then await gather(*remaining_tasks) (or go on at once).
Teardown ==
    /\ remaining_tasks' = RemainingTasks
    /\ cancel_requested' = RemainingTasks
    /\ main_pc' = "gather"

\* Faulty variant of NextCompleted (fault injection): the loop awaits the tasks in the
\* order they were created.
NextCompleted_InSubmissionOrder == words_processed + 1

\* as_completed hands out the tasks in the order they finished; every
\* iteration of the loop takes the next one.
NextCompleted == completed[words_processed + 1]
HasCompleted == main_pc = "drain" /\ Len(completed) > words_processed

\* await completed_task raises the task's exception: it leaves the loop
\* through the finally block.
ConsumeRaises ==
    /\ HasCompleted
    /\ task_pc[NextCompleted] = "raised"
    /\ main_exc' = task_exc[NextCompleted]
    /\ Teardown
    /\ UNCHANGED <<words, source_words, anki_source, source_result, text, standardized, dictionary,
                   translate_calls, task_word, package, concurrency_limit,
                   note_limit, words_processed,
                   notes_to_create, all_new_notes, close_calls, held_at_cap, TaskVars>>

\* Faulty variant of ConsumeEmpty (fault injection): the running total is raised before the
\* result is tested for emptiness.
ConsumeEmpty_CountsFirst ==
    /\ HasCompleted
    /\ task_pc[NextCompleted] = "returned"
    /\ task_result[NextCompleted] = 0
    /\ words_processed' = words_processed + 1
    /\ notes_to_create' = notes_to_create + 1
    /\ IF words_processed + 1 = words
       THEN Teardown
       ELSE UNCHANGED <<remaining_tasks, cancel_requested, main_pc>>
    /\ UNCHANGED <<words, source_words, anki_source, source_result, text, standardized, dictionary,
                   translate_calls, task_word, package, concurrency_limit,
                   note_limit, main_exc,
                   all_new_notes, close_calls, held_at_cap, TaskVars>>

\* if not new_notes: continue (the loop ends after the last task).
ConsumeEmpty ==
    /\ HasCompleted
    /\ task_pc[NextCompleted] = "returned"
    /\ task_result[NextCompleted] = 0
    /\ words_processed' = words_processed + 1
    /\ IF words_processed + 1 = words
       THEN Teardown
       ELSE UNCHANGED <<remaining_tasks, cancel_requested, main_pc>>
    /\ UNCHANGED <<words, source_words, anki_source, source_result, text, standardized, dictionary,
                   translate_calls, task_word, package, concurrency_limit,
                   note_limit, main_exc, notes_to_create,
                   all_new_notes, close_calls, held_at_cap, TaskVars>>

\* Faulty variant of ConsumeNotes (fault injection): all_new_notes = new_notes instead of
\* all_new_notes.extend(new_notes).
ConsumeNotes_Overwrites ==
    /\ HasCompleted
    /\ task_pc[NextCompleted] = "returned"
    /\ task_result[NextCompleted] > 0
    /\ words_processed' = words_processed + 1
    /\ all_new_notes' = [i \in 1..task_result[NextCompleted] |-> NextCompleted]
    /\ notes_to_create' = notes_to_create + task_result[NextCompleted]
    /\ IF NoteLimitReached(notes_to_create + task_result[NextCompleted])
       THEN /\ Teardown
            /\ held_at_cap' = Cardinality(Holders)
       ELSE /\ IF words_processed + 1 = words
               THEN Teardown
               ELSE UNCHANGED <<remaining_tasks, cancel_requested, main_pc>>
            /\ UNCHANGED held_at_cap
    /\ UNCHANGED <<words, source_words, anki_source, source_result, text, standardized, dictionary,
                   translate_calls, task_word, package, concurrency_limit,
                   note_limit, main_exc, close_calls,
                   TaskVars>>

\* all_new_notes.extend(new_notes); notes_to_create += len(new_notes); break
\* when the note limit is reached.
ConsumeNotes ==
    /\ HasCompleted
    /\ task_pc[NextCompleted] = "returned"
    /\ task_result[NextCompleted] > 0
    /\ words_processed' = words_processed + 1
    /\ all_new_notes' = all_new_notes
                        \o [i \in 1..task_result[NextCompleted] |-> NextCompleted]
    /\ notes_to_create' = notes_to_create + task_result[NextCompleted]
    /\ IF NoteLimitReached(notes_to_create + task_result[NextCompleted])
       THEN /\ Teardown
            /\ held_at_cap' = Cardinality(Holders)
       ELSE /\ IF words_processed + 1 = words
               THEN Teardown
               ELSE UNCHANGED <<remaining_tasks, cancel_requested, main_pc>>
            /\ UNCHANGED held_at_cap
    /\ UNCHANGED <<words, source_words, anki_source, source_result, text, standardized, dictionary,
                   translate_calls, task_word, package, concurrency_limit,
                   note_limit, main_exc, close_calls,
                   TaskVars>>

\* Faulty variant of GatherReady (fault injection): the remaining tasks are cancelled but not awaited.
GatherReady_NoWait == TRUE

\* await asyncio.gather(*remaining_tasks, return_exceptions=True) returns
\* when every remaining task is done.
GatherReady == \A t \in remaining_tasks : Done(t)

\* What follows the finally block when no exception is on its way: return
\* if there is no note, else shuffle the notes and write the package.
AfterLoop(exc) ==
    IF exc = "none" /\ all_new_notes # <<>>
    THEN WritePackageOf(all_new_notes)
    ELSE package

\* Faulty variant of Finalize (fault injection): close_session follows the loop instead of standing in
\* a finally block, so an exception out of the loop skips it.
Finalize_NoCloseOnError ==
    /\ main_pc = "gather"
    /\ \A t \in remaining_tasks : task_pc[t] \in {"returned", "raised", "cancelled"}
    /\ close_calls' = IF main_exc = "none" THEN close_calls + 1 ELSE close_calls
    /\ session' = IF main_exc = "none" /\ session # "none" THEN "closed" ELSE session
    /\ main_pc' = IF main_exc = "none" THEN "returned" ELSE "raised"
    /\ package' = AfterLoop(main_exc)
    /\ UNCHANGED <<words, source_words, anki_source, source_result, text, standardized, dictionary,
                   translate_calls, task_word, concurrency_limit,
                   note_limit, main_exc, remaining_tasks,
                   words_processed, notes_to_create, all_new_notes, held_at_cap,
                   cancel_requested, task_pc, task_result, task_exc, completed,
                   sem_value, sem_waiters, rate_limit_event,
                   rate_limit_handling_event, requests_made, still_limited, last_probe,
                   handler, throttled_under, called_after_close, sessions_created>>

\* Faulty variant of Finalize (fault injection): gather without return_exceptions=True, so
\* the CancelledError of a remaining task comes out of the await and
\* close_session is skipped.
Finalize_GatherRaises ==
    /\ main_pc = "gather"
    /\ GatherReady
    /\ close_calls' = IF remaining_tasks = {} THEN close_calls + 1 ELSE close_calls
    /\ session' = IF remaining_tasks = {} THEN CloseSession(session) ELSE session
    /\ main_exc' = IF remaining_tasks = {} THEN main_exc ELSE "CancelledError"
    /\ main_pc' = IF main_exc' = "none" THEN "returned" ELSE "raised"
    /\ package' = AfterLoop(main_exc')
    /\ UNCHANGED <<words, source_words, anki_source, source_result, text, standardized, dictionary,
                   translate_calls, task_word, concurrency_limit,
                   note_limit, remaining_tasks,
                   words_processed, notes_to_create, all_new_notes, held_at_cap,
                   cancel_requested, task_pc, task_result, task_exc, completed,
                   sem_value, sem_waiters, rate_limit_event,
                   rate_limit_handling_event, requests_made, still_limited, last_probe,
                   handler, throttled_under, called_after_close, sessions_created>>

\* The rest of create_deck: the gather returns, close_session is called,
\* and create_deck re-raises, or returns with or without writing the package.
Finalize ==
    /\ main_pc = "gather"
    /\ GatherReady
    /\ close_calls' = close_calls + 1
    /\ session' = CloseSession(session)
    /\ main_pc' = IF main_exc = "none" THEN "returned" ELSE "raised"
    /\ package' = AfterLoop(main_exc)
    /\ UNCHANGED <<words, source_words, anki_source, source_result, text, standardized, dictionary,
                   translate_calls, task_word, concurrency_limit,
                   note_limit, main_exc, remaining_tasks,
                   words_processed, notes_to_create, all_new_notes, held_at_cap,
                   cancel_requested, task_pc, task_result, task_exc, completed,
                   sem_value, sem_waiters, rate_limit_event,
                   rate_limit_handling_event, requests_made, still_limited, last_probe,
                   handler, throttled_under, called_after_close, sessions_created>>

\* -------------------------------------------------------------------- Spec
Next ==
    \/ EntryNoWords
    \/ EntrySpawn
    \/ \E t \in AllTasks : Start(t)
    \/ \E t \in AllTasks : TranslateSucceeds(t)
    \/ \E t \in AllTasks : TranslateRateLimited(t)
    \/ \E t \in AllTasks : TranslateFails(t)
    \/ \E t \in AllTasks : SleepEnds(t)
    \/ \E t \in AllTasks : ProbeStillLimited(t)
    \/ \E t \in AllTasks : ProbeNotLimited(t)
    \/ \E t \in AllTasks : ProbeRaises(t)
    \/ \E t \in AllTasks : FollowerResumes(t)
    \/ \E t \in AllTasks : RetrySucceeds(t)
    \/ \E t \in AllTasks : RetryRateLimited(t)
    \/ \E t \in AllTasks : RetryFails(t)
    \/ \E t \in AllTasks : Unwind(t)
    \/ ConsumeRaises
    \/ ConsumeEmpty
    \/ ConsumeNotes
    \/ Finalize

Spec == Init /\ [][Next]_vars

\* -------------------------------------------------------- scenario B
\* One run of create_deck on ScenarioWords words with MaxConcurrency slots
\* and no note limit, in which every retrieval either yields one note or is
\* throttled, every retry yields one note, and the probe answers "still
\* rate-limited" at most MaxStillLimited times.  No task fails and none is
\* left to cancel.
InitScenario ==
    /\ words = ScenarioWords
    /\ concurrency_limit = MaxConcurrency
    /\ note_limit = 0
    /\ source_words = DistinctWords(words)
    /\ anki_source = NoAnkiSource
    /\ text = <<>>
    /\ dictionary = Dictionary(TRUE)
    /\ Constructed

NextScenario ==
    \/ EntrySpawn
    \/ \E t \in AllTasks : Start(t)
    \/ \E t \in AllTasks : TranslateReturns(t, 1)
    \/ \E t \in AllTasks : TranslateRateLimited(t)
    \/ \E t \in AllTasks : SleepEnds(t)
    \/ \E t \in AllTasks : ProbeStillLimited(t)
    \/ \E t \in AllTasks : ProbeNotLimited(t)
    \/ \E t \in AllTasks : FollowerResumes(t)
    \/ \E t \in AllTasks : RetryReturns(t, 1)
    \/ ConsumeNotes
    \/ Finalize

\* The event loop runs every callback that is ready, every request is
\* answered and every sleep ends: a run does not stop while a step is
\* possible.
SpecScenario == InitScenario /\ [][NextScenario]_vars /\ WF_vars(NextScenario)

\* -------------------------------------------------------- scenario C
\* One run of create_deck on ScenarioWords words with a note limit: every
\* retrieval succeeds or is throttled, every probe answers "not limited" and
\* every retry succeeds, so the run ends by the note limit or by the end of
\* the list, and the tasks still in flight or queueing are cancelled.
InitCapped ==
    /\ words = ScenarioWords
    /\ concurrency_limit \in 1..MaxConcurrency
    /\ note_limit \in 1..MaxNoteLimit
    /\ source_words = DistinctWords(words)
    /\ anki_source = NoAnkiSource
    /\ text = <<>>
    /\ dictionary = Dictionary(TRUE)
    /\ Constructed

NextCapped ==
    \/ EntrySpawn
    \/ \E t \in AllTasks : Start(t)
    \/ \E t \in AllTasks : TranslateSucceeds(t)
    \/ \E t \in AllTasks : TranslateRateLimited(t)
    \/ \E t \in AllTasks : SleepEnds(t)
    \/ \E t \in AllTasks : ProbeNotLimited(t)
    \/ \E t \in AllTasks : FollowerResumes(t)
    \/ \E t \in AllTasks : RetrySucceeds(t)
    \/ \E t \in AllTasks : Unwind(t)
    \/ ConsumeEmpty
    \/ ConsumeNotes
    \/ Finalize

SpecCapped == InitCapped /\ [][NextCapped]_vars

\* ------------------------------------------------------------ sources
\* Runs of create_deck on the list a source delivers: the source reads any
\* list of at most MaxSourceLen words over 1..MaxWords, duplicates included,
\* and hands create_deck the de-duplicated list.  Every retrieval yields
\* one note; there is no note limit.
InitSource ==
    /\ source_words \in SourceLists
    /\ anki_source = NoAnkiSource
    /\ text = <<>>
    /\ dictionary = Dictionary(TRUE)
    /\ words = Len(words_to_translate)
    /\ concurrency_limit \in 1..MaxConcurrency
    /\ note_limit = 0
    /\ Constructed

NextSource ==
    \/ EntryNoWords
    \/ EntrySpawn
    \/ \E t \in AllTasks : Start(t)
    \/ \E t \in AllTasks : TranslateReturns(t, 1)
    \/ ConsumeNotes
    \/ Finalize

SpecSource == InitSource /\ [][NextSource]_vars

\* ------------------------------------------------------- every outcome, fair
\* Every outcome of every call, one note per word that yields notes.  The
\* event loop runs every callback that is ready, every retrieval call and
\* every probe is answered or raises, and every sleep ends: a run does not
\* stop while a step is possible.
NextFair ==
    \/ EntryNoWords
    \/ EntrySpawn
    \/ \E t \in AllTasks : Start(t)
    \/ \E t \in AllTasks : TranslateReturns(t, 1)
    \/ \E t \in AllTasks : TranslateRateLimited(t)
    \/ \E t \in AllTasks : TranslateFails(t)
    \/ \E t \in AllTasks : SleepEnds(t)
    \/ \E t \in AllTasks : ProbeStillLimited(t)
    \/ \E t \in AllTasks : ProbeNotLimited(t)
    \/ \E t \in AllTasks : ProbeRaises(t)
    \/ \E t \in AllTasks : FollowerResumes(t)
    \/ \E t \in AllTasks : RetryReturns(t, 1)
    \/ \E t \in AllTasks : RetryRateLimited(t)
    \/ \E t \in AllTasks : RetryFails(t)
    \/ \E t \in AllTasks : Unwind(t)
    \/ ConsumeRaises
    \/ ConsumeEmpty
    \/ ConsumeNotes
    \/ Finalize

\* No note limit, or one that the first word with a note reaches.
InitFair ==
    /\ words \in 0..MaxWords
    /\ concurrency_limit \in 1..MaxConcurrency
    /\ note_limit \in {0, 1}
    /\ source_words = DistinctWords(words)
    /\ anki_source = NoAnkiSource
    /\ text = <<>>
    /\ dictionary = Dictionary(TRUE)
    /\ Constructed

SpecFair == InitFair /\ [][NextFair]_vars /\ WF_vars(NextFair)

\* -------------------------------------------------------- a Dictionary alone
DictionaryFrame ==
    <<words, source_words, anki_source, source_result, text, standardized, task_word,
      package, concurrency_limit, note_limit, main_pc, main_exc, remaining_tasks,
      words_processed, notes_to_create, all_new_notes, held_at_cap, close_calls,
      TaskVars, cancel_requested>>

\* dictionary.translate(w) up to its return or to the await of the retriever.
Translate(c, w) ==
    /\ translate_calls[c].pc = "not called"
    /\ \A b \in TranslateCalls : b < c => translate_calls[b].pc # "not called"
    /\ LET call == [NotCalled EXCEPT !.word = w, !.after = ReturnedCalls] IN
       IF ~InDictionary(w)
       THEN IF ~dictionary.retriever
            THEN translate_calls' = [translate_calls EXCEPT
                     ![c] = [call EXCEPT !.pc = "returned", !.result = 0]]
            ELSE translate_calls' = [translate_calls EXCEPT
                     ![c] = [call EXCEPT !.pc = "retrieving", !.retrieved = TRUE]]
       ELSE translate_calls' = [translate_calls EXCEPT
                ![c] = [call EXCEPT !.pc = "returned",
                                    !.result = dictionary.translations[w]]]
    /\ UNCHANGED <<dictionary, DictionaryFrame>>

\* retrieve_translations returns a list: it is stored and returned.
RetrieverReturns(c, list) ==
    /\ translate_calls[c].pc = "retrieving"
    /\ dictionary' = [dictionary EXCEPT !.translations[translate_calls[c].word] = list]
    /\ translate_calls' = [translate_calls EXCEPT
           ![c] = [@ EXCEPT !.pc = "returned",
                            !.result = dictionary'.translations[translate_calls[c].word]]]
    /\ UNCHANGED DictionaryFrame

\* retrieve_translations raises: the exception leaves translate.
RetrieverRaises(c) ==
    /\ translate_calls[c].pc = "retrieving"
    /\ translate_calls' = [translate_calls EXCEPT ![c] = [@ EXCEPT !.pc = "raised"]]
    /\ UNCHANGED <<dictionary, DictionaryFrame>>

InitDictionary ==
    /\ words = 0
    /\ concurrency_limit = 1
    /\ note_limit = 0
    /\ source_words = <<>>
    /\ anki_source = NoAnkiSource
    /\ text = <<>>
    /\ dictionary \in {Dictionary(retriever) : retriever \in BOOLEAN}
    /\ Constructed

NextDictionary ==
    \/ \E c \in TranslateCalls : \E w \in 1..MaxWords : Translate(c, w)
    \/ \E c \in TranslateCalls : \E list \in Translations : RetrieverReturns(c, list)
    \/ \E c \in TranslateCalls : RetrieverRaises(c)

SpecDictionary == InitDictionary /\ [][NextDictionary]_vars

\* ----------------------------------------------------- _standardize alone
\* The text a call is given: the text at first, then what the call before
\* returned.
StandardizeArgument ==
    IF standardized = <<>> THEN text ELSE standardized[Len(standardized)]

\* scraper._standardize(...)
StandardizeCall ==
    /\ Len(standardized) < MaxCalls
    /\ standardized' = Append(standardized, Standardize(StandardizeArgument))
    /\ UNCHANGED <<words, source_words, anki_source, source_result, text, dictionary,
                   translate_calls, task_word,
                   package, concurrency_limit, note_limit, main_pc, main_exc,
                   remaining_tasks, words_processed, notes_to_create, all_new_notes,
                   held_at_cap, close_calls, TaskVars, cancel_requested>>

InitStandardize ==
    /\ words = 0
    /\ concurrency_limit = 1
    /\ note_limit = 0
    /\ source_words = <<>>
    /\ anki_source = NoAnkiSource
    /\ text \in Texts
    /\ dictionary = Dictionary(TRUE)
    /\ Constructed

NextStandardize == StandardizeCall

SpecStandardize == InitStandardize /\ [][NextStandardize]_vars

\* ------------------------------------------------ an AnkiPackageSource alone
\* source.get_words_to_translate() on an AnkiPackageSource over any package.
GetWordsToTranslate ==
    /\ source_result = NotRead
    /\ source_result' = AnkiGetWordsToTranslate(anki_source)
    /\ UNCHANGED <<words, source_words, anki_source, text, standardized, dictionary,
                   translate_calls, task_word, package,
                   concurrency_limit,
                   note_limit, main_pc, main_exc, remaining_tasks, words_processed,
                   notes_to_create, all_new_notes, held_at_cap, close_calls, TaskVars,
                   cancel_requested>>

InitAnki ==
    /\ words = 0
    /\ concurrency_limit = 1
    /\ note_limit = 0
    /\ source_words = <<>>
    /\ anki_source \in AnkiSources
    /\ text = <<>>
    /\ dictionary = Dictionary(TRUE)
    /\ Constructed

NextAnki == GetWordsToTranslate

SpecAnki == InitAnki /\ [][NextAnki]_vars

\* ------------------------------------------------------- the Scraper alone
\* The Scraper's methods called directly, as the tests call them, in any
\* order and at any valuation of the NoteCreator's two flags.
ScraperVars == <<session, sessions_created, requests_made, close_calls, last_probe,
                 called_after_close>>
OtherVars == <<MainVarsButCloseCalls, SemVars, EndVars, FlagVars, task_pc, still_limited>>

\* await scraper.rate_limited(), answered with the given status.
RateLimitedCall(status) ==
    /\ requests_made < MaxCalls
    /\ IssueCall
    /\ requests_made' = requests_made + 1
    /\ last_probe' = Answered(status)
    /\ UNCHANGED <<OtherVars, close_calls>>

\* await scraper.start_session()
StartSessionCall ==
    /\ session' = StartSession(session)
    /\ sessions_created' = SessionsAfterStart(session, sessions_created)
    /\ UNCHANGED <<OtherVars, requests_made, close_calls, last_probe, called_after_close>>

\* await scraper.close_session()
CloseSessionCall ==
    /\ close_calls < MaxCalls
    /\ close_calls' = close_calls + 1
    /\ session' = CloseSession(session)
    /\ UNCHANGED <<OtherVars, sessions_created, requests_made, last_probe,
                   called_after_close>>

InitScraper ==
    /\ words = 0
    /\ concurrency_limit = 1
    /\ note_limit = 0
    /\ source_words = <<>>
    /\ anki_source = NoAnkiSource
    /\ text = <<>>
    /\ dictionary = Dictionary(TRUE)
    /\ rate_limit_event \in BOOLEAN
    /\ rate_limit_handling_event \in BOOLEAN
    /\ ConstructedRest

NextScraper ==
    \/ \E status \in Statuses : RateLimitedCall(status)
    \/ StartSessionCall
    \/ CloseSessionCall

SpecScraper == InitScraper /\ [][NextScraper]_vars

\* ------------------------------------------------------------------ claims
InLeaderRole(t) == task_pc[t] \in {"sleeping", "probing"}
Leaders == {t \in tasks : InLeaderRole(t)}
Probing == {t \in tasks : task_pc[t] = "probing"}
Returned == main_pc \in {"returned", "raised"}
NoteLimitHit == note_limit > 0 /\ notes_to_create >= note_limit

\* C1: at any instant the tasks that acquired the semaphore and have not
\* released it (sleeping handlers and waiting followers included) are at
\* most concurrency_limit.
C1_SlotsWithinLimit == Cardinality(Holders) <= concurrency_limit

\* C1 witness: every slot is taken, one of them by a sleeping handler, and a
\* task queues for a slot.
C1_Witness ==
    /\ Cardinality(Holders) = concurrency_limit
    /\ sem_waiters # <<>>
    /\ \E t \in tasks : task_pc[t] = "sleeping"

\* C2: at most one task is in the leader role; every other task that was
\* throttled under the current leader and is not done is a follower blocked
\* on the cleared rate_limit_event.
C2_SingleLeader ==
    /\ Cardinality(Leaders) <= 1
    /\ \A l \in Leaders : \A t \in tasks \ {l} :
           throttled_under[t] = l => (task_pc[t] = "waiting" /\ ~rate_limit_event)

\* C2 witness: a leader at work and a follower throttled under it.
C2_Witness ==
    \E l \in Leaders : \E t \in tasks \ {l} :
        throttled_under[t] = l /\ task_pc[t] = "waiting"

\* C3: at most one probe call is outstanding, and the task that issued it is
\* the task that set the handling flag, which is still set.
C3_SingleProbe ==
    /\ Cardinality(Probing) <= 1
    /\ \A t \in Probing : handler = t /\ rate_limit_handling_event

\* C3 witness: a probe is outstanding while another throttled task waits.
C3_Witness ==
    \E t \in Probing : \E u \in tasks \ {t} : task_pc[u] = "waiting"

\* C4 as stated: whenever create_deck has returned or raised, by any path,
\* close_session was called exactly once and no task is pending.
C4_ClosedOnceOnEveryPath ==
    Returned => (close_calls = 1 /\ \A t \in tasks : Done(t))

\* C4 as amended: close_session is never called twice; when create_deck has
\* returned or raised after spawning tasks, it was called exactly once and
\* every task is done; on an empty word list create_deck returns without
\* spawning a task and without calling close_session.
C4_ClosedOnceAfterSpawn ==
    /\ close_calls <= 1
    /\ Returned =>
          IF words = 0
          THEN /\ close_calls = 0
               /\ session = "none"
               /\ \A t \in AllTasks : task_pc[t] = "none"
          ELSE /\ close_calls = 1
               /\ \A t \in 1..words : Done(t)

\* C4 witness: create_deck raised out of the drain loop, a task was cancelled
\* on the way, and the session was closed once.
C4_Witness ==
    /\ main_pc = "raised"
    /\ close_calls = 1
    /\ \E t \in tasks : task_pc[t] = "cancelled"

\* C5: close_session is called only when every spawned task is done; no
\* retrieval or probe call is issued after it and the session is not
\* reopened.
C5_CloseAfterAllDone ==
    close_calls > 0 =>
        /\ \A t \in tasks : Done(t)
        /\ ~called_after_close
        /\ session = "closed"

\* C5 witness: the session was closed after a task that was still in flight
\* at teardown was cancelled and awaited.
C5_Witness ==
    /\ close_calls = 1
    /\ session = "closed"
    /\ \E t \in remaining_tasks : task_pc[t] = "cancelled"

\* C6: once the running total has reached the note limit, the collector has
\* left the drain loop, the completion that reached the limit is the last
\* one consumed, every task that is not done is cancelled, and when
\* create_deck has returned every task that was not done at that moment has
\* ended cancelled.
C6_CapStopsCollector ==
    NoteLimitHit =>
        /\ main_pc # "drain"
        /\ notes_to_create - task_result[completed[words_processed]] < note_limit
        /\ \A t \in tasks : Done(t) \/ t \in cancel_requested
        /\ Returned => \A t \in tasks :
               /\ Done(t)
               /\ t \in remaining_tasks => task_pc[t] = "cancelled"

\* C6 witness: the limit stopped the run while a task was not done, and
\* create_deck has returned.
C6_Witness ==
    /\ NoteLimitHit
    /\ main_pc = "returned"
    /\ remaining_tasks # {}

\* C7: with a note limit, the final number of notes exceeds the limit by at
\* most the number of tasks that held a slot when the limit was reached.
C7_OvershootWithinHeldSlots ==
    (note_limit > 0 /\ Returned) => notes_to_create <= note_limit + held_at_cap

\* C8: a word whose retrieval ended in a failure other than rate limiting
\* yields an empty result: its task returns, and the run does not raise.
C8_FailedWordIsSkipped ==
    \A t \in tasks :
        task_exc[t] = "Exception" => (task_pc[t] = "returned" /\ main_pc # "raised")

\* C9: a handler whose probe raised has cleared the handling flag it set and
\* released the followers throttled under it.
C9_ProbeFailureReleasesFollowers ==
    \A t \in tasks :
        task_exc[t] = "ProbeError" =>
            /\ handler # t
            /\ \A u \in tasks : throttled_under[u] = t => task_pc[u] # "waiting"

\* C10: once tasks are spawned, no retrieval outcome makes create_deck raise.
C10_NoOutcomeAbortsRun ==
    main_exc \notin {"RateLimitException", "Exception"}

\* A retrieval call for the word of task t is outstanding exactly while t is
\* in one of these two positions: line 61 and line 77 of note_creator.py.
FirstAttempt(t) == task_pc[t] = "create_notes"
Retry(t) == task_pc[t] = "retrying"
InBackoff(t) == task_pc[t] \in {"sleeping", "probing", "waiting", "woken"}

\* C11: a task invokes retrieval at most twice.  The first attempt starts
\* when the task gets its slot and never again; the retry starts only from
\* the backoff the throttled first attempt put the task in (as leader after
\* its probe, as follower after its wait), or straight from the throttled
\* first attempt; after the retry the task does nothing but end, returning
\* the notes or raising the exception of the retry.
C11_AtMostOneRetry ==
    [][\A t \in AllTasks :
         /\ (FirstAttempt(t)' /\ ~FirstAttempt(t)) =>
                task_pc[t] \in {"created", "acquiring"}
         /\ (Retry(t)' /\ ~Retry(t)) =>
                task_pc[t] \in {"create_notes", "probing", "woken"}
         /\ InBackoff(t) => ~FirstAttempt(t)'
         /\ Retry(t) => \/ Retry(t)'
                        \/ /\ task_pc'[t] = "returned"
                           /\ task_exc'[t] = "none"
                        \/ /\ task_pc'[t] = "raised"
                           /\ task_exc'[t] \in {"RateLimitException", "Exception"}
                        \/ /\ task_pc'[t] = "cancelled"
                           /\ t \in cancel_requested]_vars

\* C11 witness: one task ended with the throttled outcome of its retry while
\* another, released as a follower, has its own retry outstanding.
C11_Witness ==
    \E t \in tasks : \E u \in tasks :
        /\ task_pc[t] = "raised" /\ task_exc[t] = "RateLimitException"
        /\ Retry(u)

\* C12: no task starts its first retrieval call while rate_limit_event is
\* cleared: a task that gets its slot during a backoff waits for the end of
\* the backoff before it calls the retrieval source.
C12_NoFirstCallDuringBackoff ==
    [][\A t \in AllTasks :
         (FirstAttempt(t)' /\ ~FirstAttempt(t)) => rate_limit_event']_vars

\* The step in which the first attempt of task t is answered 429: the task
\* leaves line 61 and is not done.
Throttled(t) == FirstAttempt(t) /\ ~FirstAttempt(t)' /\ ~Done(t)'

\* An earlier backoff was cleared and a retry it released is still to come or
\* outstanding.
BackoffCleared == rate_limit_event /\ \E u \in tasks : Retry(u) \/ task_pc[u] = "woken"

\* C13 as stated: a task throttled after the leader has cleared the backoff
\* goes on to its retry in the same step: it neither sleeps nor waits.
C13_LateThrottledRetriesAtOnce ==
    [][\A t \in AllTasks : (Throttled(t) /\ BackoffCleared) => Retry(t)']_vars

\* C13 as amended: no task goes from its throttled first attempt to its
\* retry without suspending.  A task throttled while rate_limit_event is set
\* (before any backoff, or after a leader has cleared one) becomes the leader
\* of a new backoff: it sets the handling flag, clears rate_limit_event and
\* sleeps.  A task throttled while rate_limit_event is cleared waits on it.
C13_LateThrottledLeadsNewBackoff ==
    [][\A t \in AllTasks :
         Throttled(t) =>
            IF rate_limit_event
            THEN /\ task_pc'[t] = "sleeping"
                 /\ ~rate_limit_event'
                 /\ rate_limit_handling_event'
                 /\ handler' = t
            ELSE /\ task_pc'[t] = "waiting"
                 /\ ~rate_limit_event'
                 /\ handler' = handler]_vars

\* C13 witness: a task throttled after the previous leader cleared its
\* backoff sleeps as the leader of a second backoff while the previous
\* leader's retry is outstanding.
C13_Witness ==
    \E t \in tasks : \E u \in tasks :
        /\ task_pc[t] = "sleeping" /\ handler = t
        /\ Retry(u)

Queued(t) == task_pc[t] = "acquiring"
InQueue(t) == \E i \in 1..Len(sem_waiters) : sem_waiters[i] = t

\* Every slot is free or held by a task inside the semaphore block; the
\* queue holds the tasks waiting for a slot and no other.
SlotsAccounted ==
    /\ sem_value >= 0
    /\ sem_value + Cardinality(Holders) = concurrency_limit
    /\ \A t \in AllTasks : InQueue(t) <=> Queued(t)

Sleeping(t) == task_pc[t] = "sleeping"
ProbeOutstanding(t) == task_pc[t] = "probing"

\* C15: a leader sets the backoff active and sleeps; every probe call is
\* issued by a task whose sleep has just ended; a task starts a sleep only
\* when it becomes leader (setting the handling flag and clearing
\* rate_limit_event) or when its probe was answered "still rate-limited";
\* rate_limit_event is set again only in the step in which the handler's
\* probe is answered "not limited", and followers are released only in that
\* step.
C15_SleepProbeRelease ==
    [][/\ \A t \in AllTasks :
            /\ (ProbeOutstanding(t)' /\ ~ProbeOutstanding(t)) => Sleeping(t)
            /\ (Sleeping(t)' /\ ~Sleeping(t)) =>
                   \/ /\ FirstAttempt(t)
                      /\ rate_limit_handling_event' /\ ~rate_limit_event'
                      /\ handler' = t
                   \/ /\ ProbeOutstanding(t)
                      /\ requests_made' = requests_made + 1
                      /\ rate_limit_handling_event' /\ ~rate_limit_event'
            /\ (task_pc[t] = "waiting" /\ task_pc'[t] \in {"woken", "retrying"}) =>
                   (~rate_limit_event /\ rate_limit_event')
       /\ (~rate_limit_event /\ rate_limit_event') =>
              \E l \in AllTasks :
                  /\ ProbeOutstanding(l) /\ handler = l
                  /\ Retry(l)'
                  /\ requests_made' = requests_made + 1
                  /\ ~rate_limit_handling_event']_vars

\* C15 witness: the first probe was answered "still rate-limited", the
\* handler slept again, its second probe was answered "not limited", and
\* the follower was released.
C15_Witness ==
    /\ still_limited > 0
    /\ rate_limit_event
    /\ \E l \in tasks : \E f \in tasks : Retry(l) /\ task_pc[f] = "woken"

\* Several tasks are throttled under one backoff: a leader sleeps or probes
\* while another task waits on the cleared rate_limit_event.
ThrottledTogether ==
    \E l \in Leaders : \E f \in tasks \ {l} : task_pc[f] = "waiting"

\* The number of notes of word t the collector holds.
NotesOf(t) == Len(SelectSeq(all_new_notes, LAMBDA w : w = t))

\* create_deck has returned after consuming every task, holding every note
\* every task returned.
AllCollected ==
    /\ main_pc = "returned"
    /\ words_processed = words
    /\ \A t \in tasks : task_pc[t] = "returned" /\ NotesOf(t) = task_result[t]

\* C16: in a run where every retrieval succeeds or is throttled, the probe
\* ends up answering "not limited" and every retry succeeds: whenever
\* several tasks are throttled together, exactly one of them is the leader
\* and every other task throttled under it waits as a follower; each of
\* them goes on to its retry; and create_deck eventually returns having
\* consumed every task and collected the notes of every word, the words
\* whose tasks started after the throttling included.
C16_ThrottledRunCompletes ==
    /\ [](ThrottledTogether =>
            /\ Cardinality(Leaders) = 1
            /\ \A l \in Leaders :
                   /\ handler = l
                   /\ \A f \in tasks \ {l} :
                          (throttled_under[f] = l \/ task_pc[f] = "waiting")
                              => (task_pc[f] = "waiting" /\ throttled_under[f] = l))
    /\ \A t \in AllTasks : (ThrottledTogether /\ InBackoff(t)) ~> Retry(t)
    /\ ThrottledTogether ~> (AllCollected /\ Len(all_new_notes) = words)

\* C16 witness: create_deck has returned with every word collected after a
\* run of words + 3 requests in which no probe answered "still
\* rate-limited": two throttled first attempts, one probe and two retries,
\* that is, a leader and a follower throttled under the same backoff.
C16_Witness ==
    /\ AllCollected
    /\ still_limited = 0
    /\ requests_made = words + 3
    /\ Len(all_new_notes) = words

\* The tasks whose completion the drain loop has taken.
Consumed(t) == \E i \in 1..words_processed : completed[i] = t
Finished(t) == \E i \in 1..Len(completed) : completed[i] = t
CapEndedRun == NoteLimitHit /\ main_pc = "returned"

\* C17 as stated: when the note limit has ended the run, every task whose
\* completion was not consumed is cancelled.
C17_UnconsumedAreCancelled ==
    CapEndedRun => \A t \in tasks : Consumed(t) \/ task_pc[t] = "cancelled"

\* C17 as amended: when the note limit has ended the run, every consumed
\* task has returned; a task that was not done when the limit was reached is
\* cancelled; a task that had finished by then without being consumed stays
\* finished (returned, or raised), and none of its notes is collected.
C17_UnfinishedAreCancelled ==
    CapEndedRun =>
        \A t \in tasks :
            /\ Consumed(t) => (task_pc[t] = "returned" /\ NotesOf(t) = task_result[t])
            /\ ~Consumed(t) =>
                  /\ NotesOf(t) = 0
                  /\ IF t \in remaining_tasks
                     THEN task_pc[t] = "cancelled" /\ ~Finished(t)
                     ELSE task_pc[t] \in {"returned", "raised"} /\ Finished(t)

\* C17 witness: the note limit ended the run with one task consumed, one
\* task finished but not consumed, and one task cancelled.
C17_Witness ==
    /\ CapEndedRun
    /\ \E t \in tasks : \E u \in tasks :
           /\ ~Consumed(t) /\ task_pc[t] = "returned" /\ task_result[t] > 0
           /\ task_pc[u] = "cancelled"

\* C18: a task on which the collector called cancel() stays where it is
\* suspended (queueing for a slot, in a retrieval, asleep, probing, waiting
\* for the handler) until it unwinds there: its next step ends it in the
\* cancelled state with CancelledError, without a result and without a
\* retrieval or probe call of its own; the task never ends returned or
\* raised, so its generic exception handler did not swallow the
\* cancellation.
C18_CancelledTaskUnwinds ==
    /\ [][\A t \in AllTasks :
             t \in cancel_requested =>
                 \/ /\ task_pc'[t] = task_pc[t]
                    /\ t \in cancel_requested'
                 \/ /\ task_pc'[t] = "cancelled"
                    /\ task_exc'[t] = "CancelledError"
                    /\ t \notin cancel_requested'
                    /\ session' = session
                    /\ requests_made' = requests_made]_vars
    /\ [](\A t \in tasks :
             /\ t \in cancel_requested => (t \in remaining_tasks /\ ~Done(t))
             /\ task_pc[t] = "cancelled" =>
                    /\ t \in remaining_tasks
                    /\ task_exc[t] = "CancelledError"
                    /\ ~Finished(t)
             /\ (t \in remaining_tasks /\ Done(t)) => task_pc[t] = "cancelled")

\* C18 witness: the handler was cancelled in its backoff and has unwound,
\* and a follower, cancelled too, is still suspended in its wait.
C18_Witness ==
    \E t \in tasks : \E u \in cancel_requested :
        /\ task_pc[t] = "cancelled" /\ handler = t
        /\ task_pc[u] = "waiting"

InTeardown == main_pc \in {"gather", "returned", "raised"} /\ words > 0

\* C19: cancelling the unfinished tasks in the finally block never fails the
\* run.  create_deck never raises CancelledError; an exception it raises is
\* the one of the completion it was consuming, never one of a task that
\* was still in flight at teardown; and when the note limit stopped the
\* loop, create_deck raises nothing.
C19_TeardownNeverFails ==
    /\ main_exc # "CancelledError"
    /\ main_pc = "raised" <=> (Returned /\ main_exc # "none")
    /\ (InTeardown /\ main_exc # "none") =>
           /\ Len(completed) > words_processed
           /\ NextCompleted \notin remaining_tasks
           /\ task_pc[NextCompleted] = "raised"
           /\ main_exc = task_exc[NextCompleted]
    /\ NoteLimitHit => (main_exc = "none" /\ main_pc # "raised")

\* C19 witness: the note limit stopped the loop while the handler was in its
\* backoff; the handler was cancelled and create_deck returned normally.
C19_Witness ==
    /\ NoteLimitHit
    /\ main_pc = "returned"
    /\ \E t \in remaining_tasks : task_pc[t] = "cancelled" /\ handler = t

Spawned == {t \in AllTasks : task_pc[t] # "none"}
WordsOf(ws) == {ws[i] : i \in 1..Len(ws)}

\* C20: no task exists before create_deck spawns them and none is spawned
\* for an empty list; otherwise the spawned tasks are one per position of
\* the list create_deck is given, task t for the t-th word, and they start
\* in that order; no two tasks are for the same word and every word the
\* source read has its task, so the number of tasks is the number of
\* different words the source read.
C20_OneTaskPerWord ==
    /\ (main_pc = "entry" \/ source_words = <<>>) => Spawned = {}
    /\ (main_pc # "entry" /\ source_words # <<>>) =>
           /\ Spawned = 1..Len(words_to_translate)
           /\ \A t \in Spawned : task_word[t] = words_to_translate[t]
           /\ \A t \in Spawned : \A u \in Spawned :
                  /\ t # u => task_word[t] # task_word[u]
                  /\ (t < u /\ task_pc[t] = "created") => task_pc[u] = "created"
           /\ {task_word[t] : t \in Spawned} = WordsOf(source_words)
           /\ Cardinality(Spawned) = Cardinality(WordsOf(source_words))

\* C20 witness: the source read a list of MaxSourceLen words with
\* duplicates, the second word first; two tasks were spawned, the first for
\* the second word, and the first has started.
C20_Witness ==
    /\ Len(source_words) = MaxSourceLen
    /\ Cardinality(Spawned) = 2
    /\ task_word[1] > task_word[2]
    /\ task_pc[1] = "create_notes"

\* C21: when create_deck has returned from a run without note limit, every
\* task has returned and the package holds, for every task, exactly the
\* notes the task returned: none lost, none twice, whatever the order in
\* which the tasks finished; a package is written if and only if there is a
\* note.
C21_DeckHoldsEveryNote ==
    (note_limit = 0 /\ main_pc = "returned" /\ words > 0) =>
        /\ \A t \in tasks :
               /\ task_pc[t] = "returned"
               /\ package.notes[t] = task_result[t]
        /\ \A t \in AllTasks \ tasks : package.notes[t] = 0
        /\ package.written <=> \E t \in tasks : task_result[t] > 0

\* C21 witness: a run without note limit has returned; the second word
\* finished first, both words yielded notes, one of them several, and the
\* package is written.
C21_Witness ==
    /\ note_limit = 0
    /\ main_pc = "returned"
    /\ package.written
    /\ Len(completed) = 2 /\ completed[1] = 2
    /\ task_result[1] > 1 /\ task_result[2] > 0

\* A network call of task t is outstanding: a retrieval (lines 61, 77) or a
\* probe (line 69).
InCall(t) == FirstAttempt(t) \/ Retry(t) \/ ProbeOutstanding(t)

\* The calls that are over after this step: the task is no longer where it
\* issued the call.
CallsEnded == {t \in AllTasks : InCall(t) /\ task_pc'[t] # task_pc[t]}

\* C22: the request counter never decreases and goes up by exactly one for
\* every network call, retrieval or probe, that is over, whatever its
\* outcome, so that at the end of a run it equals the number of calls.
C22_EveryCallCounted ==
    [][requests_made' = requests_made + Cardinality(CallsEnded)]_vars

\* C23: a run given no word spawns no task, makes no call, opens no
\* session, writes no package and returns; a run that ends without any task
\* having yielded a note returns too, without raising and without writing
\* a package.
C23_EmptyRunsAreNoOps ==
    /\ (Returned /\ words = 0) =>
           /\ main_pc = "returned"
           /\ Spawned = {}
           /\ requests_made = 0 /\ session = "none"
           /\ ~package.written
    /\ (Returned /\ words > 0 /\ \A t \in tasks : task_result[t] = 0) =>
           /\ main_pc = "returned"
           /\ ~package.written

\* C24: whenever no task is the leader, the backoff state is the one of
\* startup: rate_limit_handling_event clear and rate_limit_event set, also
\* after a leader ended by an exception of its probe or by cancellation.
C24_BackoffResetWithoutLeader ==
    Leaders = {} => (~rate_limit_handling_event /\ rate_limit_event /\ handler = 0)

\* C25: a call of the probe returns true exactly when the remote side
\* answered with the too-many-requests status; a call answered with any
\* other status returns false, and no call changes the rate-limit event or
\* the handling flag, however many calls were made before.
ProbeCalled == requests_made' # requests_made
C25_ProbeTellsThrottlingOnly ==
    [][ProbeCalled =>
          /\ last_probe'.result = (last_probe'.status = TOO_MANY_REQUESTS)
          /\ last_probe'.status # TOO_MANY_REQUESTS => ~last_probe'.result
          /\ UNCHANGED <<rate_limit_event, rate_limit_handling_event>>]_vars

\* The last of several probes was answered with an error other than
\* too-many-requests while a backoff was flagged, and returned false.
C25_Witness ==
    /\ requests_made = MaxCalls
    /\ last_probe.status \notin {OK, TOO_MANY_REQUESTS}
    /\ ~last_probe.result
    /\ rate_limit_handling_event /\ ~rate_limit_event

\* C30: opening and closing the session are idempotent: a step that starts
\* the session while one is open keeps that session and constructs none, a
\* close_session before any session was opened leaves the Scraper without a
\* session, and a close_session on a closed session leaves it closed.
CloseCalled == close_calls' # close_calls
C30_SessionOpenCloseIdempotent ==
    [][/\ (session = "open" /\ ~CloseCalled) =>
              (session' = "open" /\ sessions_created' = sessions_created)
       /\ (session = "none" /\ CloseCalled) =>
              (session' = "none" /\ sessions_created' = 0)
       /\ (session = "closed" /\ CloseCalled) =>
              (session' = "closed" /\ sessions_created' = sessions_created)]_vars

\* One session served several calls and was then closed twice.
C30_Witness ==
    /\ sessions_created = 1
    /\ requests_made = MaxCalls
    /\ close_calls = MaxCalls
    /\ ~called_after_close
    /\ session = "closed"

\* C26: slots are granted in submission order: in no step does a task enter
\* the semaphore block while a task spawned before it is in the queue of the
\* semaphore.
Acquires(t) ==
    /\ task_pc[t] \in {"created", "acquiring"}
    /\ task_pc'[t] \in HoldingStates
C26_SlotsGrantedInSubmissionOrder ==
    [][\A t \in tasks : Acquires(t) =>
          \A u \in tasks : u < t => task_pc'[u] # "acquiring"]_vars

\* The second task was woken from the queue and holds the only slot, the
\* first is done and the third still queues.
C26_Witness ==
    /\ concurrency_limit = 1
    /\ Done(1)
    /\ task_pc[2] \in HoldingStates
    /\ task_pc[3] = "acquiring"

\* C27: the collector consumes results in completion order, not submission
\* order: the notes it holds stand in the order their tasks finished, and
\* while it drains, the task it takes next is one that has finished, whatever
\* the tasks spawned before that one are doing.
FinishedAt(t) == CHOOSE i \in 1..Len(completed) : completed[i] = t
C27_ConsumedInCompletionOrder ==
    /\ \A i, j \in 1..Len(all_new_notes) :
           i < j => /\ Finished(all_new_notes[i])
                    /\ Finished(all_new_notes[j])
                    /\ FinishedAt(all_new_notes[i]) <= FinishedAt(all_new_notes[j])
    /\ HasCompleted => Finished(NextCompleted)

\* The notes of the second task were consumed while the first task sleeps
\* in a backoff.
C27_Witness ==
    /\ main_pc = "drain"
    /\ task_pc[1] = "sleeping"
    /\ all_new_notes # <<>>
    /\ all_new_notes[1] = 2

\* C28: whatever list the source read, the list get_words_to_translate
\* returns has no word twice and holds exactly the words that were read: none
\* is lost and none is added.
C28_DeduplicatedListSameWords ==
    LET returned == words_to_translate IN
    /\ \A i, j \in 1..Len(returned) : i # j => returned[i] # returned[j]
    /\ WordsOf(returned) = WordsOf(source_words)
    /\ Len(returned) = Cardinality(WordsOf(source_words))
    /\ words = Len(returned)

\* The source read MaxSourceLen words, one of them repeated, and the run
\* over the shorter list it returned has ended.
C28_Witness ==
    /\ Len(source_words) = MaxSourceLen
    /\ Cardinality(WordsOf(source_words)) = MaxWords
    /\ Len(words_to_translate) < Len(source_words)
    /\ main_pc = "returned"
    /\ words_processed = MaxWords

\* C29: once get_words_to_translate of an AnkiPackageSource was called: if a
\* deck name was given and no deck of the package has it, the call raised
\* ValueError for the missing deck; otherwise the selected deck is the first
\* deck of that name, or the first deck of the package when no name was
\* given, and the call raised ValueError for a deck without notes, else
\* ValueError for a field name that is not a field of the note model, else
\* returned the words of that field of the selected deck; whenever it raised
\* it returned no words.
Named == anki_source.deck_name # NoName
DecksOfName == {i \in 1..Len(anki_source.decks) :
                   anki_source.decks[i].name = anki_source.deck_name}
SelectedDeck ==
    IF Named
    THEN anki_source.decks[CHOOSE i \in DecksOfName : \A j \in DecksOfName : i <= j]
    ELSE anki_source.decks[1]
FieldsOfModel(deck) == {deck.model[k] : k \in 1..Len(deck.model)}
FieldValues(deck) ==
    {deck.notes[n][k] : n \in 1..Len(deck.notes),
                        k \in {j \in 1..Len(deck.model) :
                                  deck.model[j] = anki_source.field_name}}
C29_AnkiSourceErrorsInOrder ==
    source_result # NotRead =>
        /\ source_result.raised \in {"none", "ValueError"}
        /\ source_result.raised = "ValueError" => source_result.words = <<>>
        /\ (Named /\ DecksOfName = {}) =>
               source_result = ValueError("deck not found in package")
        /\ ((Named /\ DecksOfName # {}) \/ (~Named /\ anki_source.decks # <<>>)) =>
               IF SelectedDeck.notes = <<>>
               THEN source_result = ValueError("deck has no notes")
               ELSE IF anki_source.field_name \notin FieldsOfModel(SelectedDeck)
               THEN source_result = ValueError("field not found in model")
               ELSE /\ source_result.raised = "none"
                    /\ WordsOf(source_result.words) = FieldValues(SelectedDeck)

\* The named deck is the second of the package, it has no notes and its
\* model lacks the field: the call raised for the missing notes.
C29_Witness ==
    /\ Named
    /\ DecksOfName = {2}
    /\ anki_source.decks[1].notes # <<>>
    /\ anki_source.field_name \notin FieldsOfModel(anki_source.decks[2])
    /\ source_result = ValueError("deck has no notes")

\* C31 as stated: what _standardize returns has no character of the
\* punctuation class and no upper-case letter, its whitespace is collapsed (no
\* blank at either end and no two blanks in a row), and a call on a returned
\* text returns it unchanged.
HasPunctuation(txt) == \E i \in 1..Len(txt) : txt[i] \in Removed
HasUpperCase(txt) == \E i \in 1..Len(txt) : LowerChar(txt[i]) # txt[i]
HasOuterBlank(txt) ==
    txt # <<>> /\ (txt[1] \in Whitespace \/ txt[Len(txt)] \in Whitespace)
HasBlankRun(txt) ==
    \E i \in 1..(Len(txt) - 1) : txt[i] \in Whitespace /\ txt[i + 1] \in Whitespace
Stable == \A k \in 1..Len(standardized) : standardized[k] = standardized[1]
AllBlank(txt) == \A i \in 1..Len(txt) : txt[i] \in Whitespace
C32_TotalCountsConsumedNotes ==
    /\ notes_to_create = Len(all_new_notes)
    /\ \A t \in AllTasks :
           NotesOf(t) = IF Consumed(t) THEN task_result[t] ELSE 0
    /\ package.written => \A t \in AllTasks : package.notes[t] = NotesOf(t)

\* The note limit ended the run: one consumed completion had no notes, and a
\* task that returned notes without being consumed has none in the package.
C32_Witness ==
    /\ CapEndedRun
    /\ package.written
    /\ \E t \in tasks : Consumed(t) /\ task_result[t] = 0
    /\ \E u \in tasks :
           /\ ~Consumed(u)
           /\ task_pc[u] = "returned"
           /\ task_result[u] > 0
           /\ package.notes[u] = 0

\* C33: the tasks in a backoff (sleeping or probing leader, waiting or woken
\* follower) keep their slots: they are at most concurrency_limit, and
\* together with the tasks in a retrieval call and the free slots they add
\* up to concurrency_limit, so no other task is inside the semaphore block on
\* one of their slots; and with concurrency_limit = 1 no task is ever a
\* follower.
Followers == {t \in tasks : task_pc[t] \in {"waiting", "woken"}}
BackingOff == {t \in tasks : InBackoff(t)}
Calling == {t \in tasks : FirstAttempt(t) \/ Retry(t)}
C33_BackoffKeepsSlots ==
    /\ Cardinality(BackingOff) <= concurrency_limit
    /\ Cardinality(BackingOff) + Cardinality(Calling) + sem_value = concurrency_limit
    /\ concurrency_limit = 1 => Followers = {}

\* C34: in every state between two steps of the tasks the handling flag is
\* set exactly when rate_limit_event is cleared; so a task that is throttled
\* while the handling flag is set finds rate_limit_event cleared and suspends
\* in its wait: it never goes from the follower branch straight to its
\* retry.
C34_FlagsMoveTogether ==
    /\ [](rate_limit_handling_event <=> ~rate_limit_event)
    /\ [][\A t \in AllTasks :
             (Throttled(t) /\ rate_limit_handling_event) =>
                 (task_pc'[t] = "waiting" /\ ~rate_limit_event')]_vars

\* A follower waits on the cleared event while the leader sleeps again after
\* a probe that answered "still rate-limited".
C34_Witness ==
    /\ rate_limit_handling_event
    /\ ~rate_limit_event
    /\ still_limited > 0
    /\ \E l \in tasks : Sleeping(l) /\ handler = l
    /\ \E f \in tasks : task_pc[f] = "waiting"

\* C35: when every step that is possible is eventually taken, every
\* retrieval call returns or raises and every probe is answered or raises,
\* create_deck returns or raises: no run stops with the collector waiting for
\* a completion while the tasks that are left wait for a slot or for
\* rate_limit_event.
C35_CreateDeckTerminates == <>Returned

\* create_deck has raised and its tasks are done although the flags were left
\* in the backoff position: a task that waited on the cleared event was
\* cancelled.
C35_Witness ==
    /\ main_pc = "raised"
    /\ rate_limit_handling_event /\ ~rate_limit_event
    /\ \E t \in tasks : task_pc[t] = "cancelled"
    /\ \A t \in tasks : Done(t)

\* C36: a call of translate that started after a call for the same word had
\* returned has not called the retriever and, once it returns, returns the
\* list that call returned; a word for which no call has returned has no
\* entry, whatever calls for it raised; and a dictionary without a retriever
\* stores nothing, and each of its calls returns the empty list at once.
SameWord(a, c) == translate_calls[a].word = translate_calls[c].word
C36_LaterCallsReturnCachedList ==
    /\ \A c \in TranslateCalls : \A a \in translate_calls[c].after :
           SameWord(a, c) =>
               /\ ~translate_calls[c].retrieved
               /\ c \in ReturnedCalls => translate_calls[c].result = translate_calls[a].result
    /\ \A w \in 1..MaxWords :
           InDictionary(w) => \E a \in ReturnedCalls : translate_calls[a].word = w
    /\ ~dictionary.retriever =>
           /\ \A w \in 1..MaxWords : ~InDictionary(w)
           /\ \A c \in TranslateCalls :
                  translate_calls[c].pc \in {"not called", "returned"}
                  /\ translate_calls[c].result \in {NoEntry, 0}
                  /\ ~translate_calls[c].retrieved

\* C37: the list _deduplicate returns holds each word at the place of its
\* first occurrence: its words stand in the order in which they first occur
\* in the list that was read, from the first word of that list on, and
\* applying _deduplicate to the returned list returns the same list.
FirstOccurrence(w) ==
    CHOOSE i \in 1..Len(source_words) :
        source_words[i] = w /\ \A j \in 1..(i - 1) : source_words[j] # w
C37_FirstOccurrencesInOrder ==
    LET unique_words == Deduplicate(source_words) IN
    /\ \A k \in 1..Len(unique_words) :
           \E i \in 1..Len(source_words) : source_words[i] = unique_words[k]
    /\ \A k, l \in 1..Len(unique_words) :
           k < l => FirstOccurrence(unique_words[k]) < FirstOccurrence(unique_words[l])
    /\ source_words # <<>> => unique_words[1] = source_words[1]
    /\ Deduplicate(unique_words) = unique_words
    /\ main_pc # "entry" =>
           \A t \in Spawned : task_word[t] = unique_words[t]

\* The list read begins and ends with the same word, with a smaller word in
\* between; the tasks were spawned for the first word and then the other.
C37_Witness ==
    /\ Len(source_words) = MaxSourceLen
    /\ source_words[1] = source_words[MaxSourceLen]
    /\ source_words[2] < source_words[1]
    /\ main_pc = "drain"
    /\ task_word[1] = source_words[1]
    /\ task_word[2] = source_words[2]
====
